---- MODULE Spec2Model ----
(***************************************************************************)
(* Model of src/main.rs: the Language lookup, the PasswordCypher (salted   *)
(* Argon2 hashing and verification), the Password value with its redacted  *)
(* Debug output, and the User record that owns a Password.                 *)
(*                                                                         *)
(* Two things the program calls but does not define are modelled by what   *)
(* the program relies on:                                                  *)
(*   - Argon2::hash_password_into is a deterministic function of           *)
(*     (configuration, password, salt).  Its digest is an injective        *)
(*     encoding of its three inputs (the ideal the program's tests rely    *)
(*     on), and whether it fails on an input is fixed by primErr, chosen   *)
(*     in the initial state and never changed.                             *)
(*   - OsRng never hands out the same 16 bytes twice: every fill is some   *)
(*     value of RngPool that was not drawn before.                         *)
(***************************************************************************)
EXTENDS Integers, Sequences, FiniteSets, TLC

VARIABLES
  primErr,  \* outcome of the hash primitive per (configuration, password)
  drawn,    \* the salts OsRng has handed out so far
  creds,    \* the Passwords encode has returned, each with the call that made it
  users,    \* the User records built so far
  last      \* the last operation called, its arguments and what it returned

vars == <<primErr, drawn, creds, users, last>>

---------------------------------------------------------------------------
(* Sizes.                                                                  *)

SaltLen == 16
HashLen == 32

\* how many distinct outputs of OsRng a run may consume
NumSalts == 3
\* how many Passwords / Users a run keeps
MaxCreds == 2
MaxUsers == 2
\* on how many (configuration, password) inputs the hash primitive may fail
MaxFailing == 1

---------------------------------------------------------------------------
(* Result<T, ApplicationError>                                             *)

Ok(v) == [ok |-> TRUE, val |-> v]
Err(e) == [ok |-> FALSE, err |-> e]

LanguageNotFound == [kind |-> "LanguageNotFound"]
PasswordHash(msg) == [kind |-> "PasswordHash", msg |-> msg]

---------------------------------------------------------------------------
(* Language                                                                *)

Language ==
  << [variant |-> "English",    lang |-> "en"],
     [variant |-> "Chinese",    lang |-> "zh"],
     [variant |-> "Spanish",    lang |-> "es"],
     [variant |-> "French",     lang |-> "fr"],
     [variant |-> "German",     lang |-> "de"],
     [variant |-> "Japanese",   lang |-> "ja"],
     [variant |-> "Portuguese", lang |-> "pt"],
     [variant |-> "Russian",    lang |-> "ru"],
     [variant |-> "Arabic",     lang |-> "ar"],
     [variant |-> "Korean",     lang |-> "ko"] >>

\* l.get_str("lang")
get_str_lang(i) == Language[i].lang

\* Self::iter().find(pred): the first variant, in declaration order, that
\* satisfies pred; 0 when there is none
RECURSIVE iter_find(_, _)
iter_find(i, s) ==
  IF i > Len(Language) THEN 0
  ELSE IF get_str_lang(i) = s THEN i
  ELSE iter_find(i + 1, s)

\* a plausible slip: an unknown code falls back to the first variant
from_str_Fallback(s) ==
  LET i == iter_find(1, s)
  IN  IF i = 0 THEN Ok(Language[1].variant) ELSE Ok(Language[i].variant)

from_str(s) ==
  LET i == iter_find(1, s)
  IN  IF i = 0 THEN Err(LanguageNotFound) ELSE Ok(Language[i].variant)

---------------------------------------------------------------------------
(* Argon2 and OsRng                                                        *)

Argon2Default == "default"
Argon2Custom == "custom"
Argon2Configs == {Argon2Default, Argon2Custom}

RawTexts == {"123", "1234"}

\* the message of the error the primitive reports on an input it rejects
ArgonErrorOf(argon, pwd) ==
  IF argon = Argon2Default THEN "password is too long" ELSE "memory cost is too small"

Zeros(n) == [i \in 1..n |-> 0]

\* the values OsRng::fill may write into a 16-byte buffer
RngBytes(k) == [i \in 1..SaltLen |-> (17 * k + 31 * i) % 256]
RngPool == {RngBytes(k) : k \in 0..(NumSalts - 1)}

ArgonCode(a) == IF a = Argon2Default THEN 1 ELSE 2
PwdCode(p) == Len(p)

\* the digest of a successful run of the primitive: 32 bytes, a different
\* array for every different (configuration, password, salt)
Digest(argon, pwd, salt) ==
  [i \in 1..HashLen |->
     IF i <= SaltLen THEN (salt[i] + 16 * PwdCode(pwd) + ArgonCode(argon)) % 256
     ELSE IF i = SaltLen + 1 THEN ArgonCode(argon)
     ELSE IF i = SaltLen + 2 THEN PwdCode(pwd)
     ELSE (i * ArgonCode(argon)) % 256]

\* argon.hash_password_into(pwd, salt, &mut out): the error it reports, or
\* "ok", and the buffer afterwards
hash_password_into(argon, pwd, salt, out) ==
  IF primErr[<<argon, pwd>>] # "ok"
  THEN [err |-> primErr[<<argon, pwd>>], out |-> out]
  ELSE [err |-> "ok", out |-> Digest(argon, pwd, salt)]

\* the primitives a run may face: each rejects at most MaxFailing inputs
PrimOutcomes ==
  {[x \in Argon2Configs \X RawTexts |->
      IF x \in bad THEN ArgonErrorOf(x[1], x[2]) ELSE "ok"] :
     bad \in {b \in SUBSET (Argon2Configs \X RawTexts) : Cardinality(b) <= MaxFailing}}

---------------------------------------------------------------------------
(* PasswordCypher                                                          *)

PasswordCypherNew(argon) == [argon |-> argon]
PasswordCypherDefault == PasswordCypherNew(Argon2Default)
Cyphers == {PasswordCypherNew(a) : a \in Argon2Configs}

\* a plausible slip: the salt buffer is never filled
encode_NoFill(self, raw_text, rng) ==
  LET salt == Zeros(SaltLen)
      r == hash_password_into(self.argon, raw_text, salt, Zeros(HashLen))
  IN  [call |-> [argon |-> self.argon, pwd |-> raw_text, salt |-> salt],
       result |-> IF r.err # "ok" THEN Err(PasswordHash(r.err))
                  ELSE Ok([salt |-> salt, hash |-> r.out])]

\* a plausible slip: the primitive's error is dropped
encode_Swallow(self, raw_text, rng) ==
  LET salt == rng
      r == hash_password_into(self.argon, raw_text, salt, Zeros(HashLen))
  IN  [call |-> [argon |-> self.argon, pwd |-> raw_text, salt |-> salt],
       result |-> Ok([salt |-> salt, hash |-> r.out])]

\* PasswordCypher::encode; rng is what OsRng::fill writes into salt.
\* call is what was handed to the primitive, result is what encode returns.
encode(self, raw_text, rng) ==
  LET salt == rng
      r == hash_password_into(self.argon, raw_text, salt, Zeros(HashLen))
  IN  [call |-> [argon |-> self.argon, pwd |-> raw_text, salt |-> salt],
       result |-> IF r.err # "ok" THEN Err(PasswordHash(r.err))
                  ELSE Ok([salt |-> salt, hash |-> r.out])]

\* a plausible slip: a digest mismatch reported as an error
try_password_MismatchErr(self, password, raw_text) ==
  LET argon == Argon2Default
      r == hash_password_into(argon, raw_text, password.salt, Zeros(HashLen))
  IN  [call |-> [argon |-> argon, pwd |-> raw_text, salt |-> password.salt],
       result |-> IF r.err # "ok" THEN Err(PasswordHash(r.err))
                  ELSE IF password.hash = r.out THEN Ok(TRUE)
                  ELSE Err(PasswordHash("mismatch"))]

\* a plausible slip: any recomputed digest accepted
try_password_AcceptAll(self, password, raw_text) ==
  LET argon == Argon2Default
      r == hash_password_into(argon, raw_text, password.salt, Zeros(HashLen))
  IN  [call |-> [argon |-> argon, pwd |-> raw_text, salt |-> password.salt],
       result |-> IF r.err # "ok" THEN Err(PasswordHash(r.err))
                  ELSE Ok(TRUE)]

\* PasswordCypher::try_password: hashes with Argon2::default(), not self.argon
try_password(self, password, raw_text) ==
  LET argon == Argon2Default
      r == hash_password_into(argon, raw_text, password.salt, Zeros(HashLen))
  IN  [call |-> [argon |-> argon, pwd |-> raw_text, salt |-> password.salt],
       result |-> IF r.err # "ok" THEN Err(PasswordHash(r.err))
                  ELSE Ok(password.hash = r.out)]

---------------------------------------------------------------------------
(* The hasher on its own: encode and try_password called in any order.     *)

NoOp == [op |-> "none"]

InitHasher ==
  /\ primErr \in PrimOutcomes
  /\ drawn = {}
  /\ creds = {}
  /\ users = {}
  /\ last = NoOp

\* cypher.encode(raw_text): draws a salt, hashes, and on success the caller
\* keeps the Password
Encode(c, raw_text) ==
  /\ Cardinality(creds) < MaxCreds
  /\ \E rng \in RngPool \ drawn :
       LET e == encode(c, raw_text, rng)
       IN  /\ drawn' = drawn \cup {rng}
           /\ creds' = IF e.result.ok
                       THEN creds \cup {[cypher |-> c, raw_text |-> raw_text,
                                         password |-> e.result.val, call |-> e.call]}
                       ELSE creds
           /\ last' = [op |-> "encode", cypher |-> c, raw_text |-> raw_text,
                       rng |-> rng, before |-> drawn,
                       held |-> {x.password.salt : x \in creds},
                       call |-> e.call, result |-> e.result]
  /\ UNCHANGED <<primErr, users>>

\* cypher.try_password(&password, raw_text) on a Password encode returned
TryPassword(c, cred, raw_text) ==
  /\ cred \in creds
  /\ LET t == try_password(c, cred.password, raw_text)
     IN  last' = [op |-> "try_password", cypher |-> c, cred |-> cred,
                  raw_text |-> raw_text, call |-> t.call, result |-> t.result]
  /\ UNCHANGED <<primErr, drawn, creds, users>>

NextHasher ==
  \/ \E c \in Cyphers, p \in RawTexts : Encode(c, p)
  \/ \E c \in Cyphers, cred \in creds, q \in RawTexts : TryPassword(c, cred, q)

SpecHasher == InitHasher /\ [][NextHasher]_vars

---------------------------------------------------------------------------
(* Password and User                                                       *)

\* a plausible slip: Debug derived for Password instead of written by hand
fmt_Password_Derived(self) == <<"Password", "{", "salt", self.salt, "hash", self.hash, "}">>

\* impl fmt::Debug for Password: f.debug_struct("Password").finish()
fmt_Password(self) == <<"Password">>

\* #[derive(Debug)] on User: every field by name, each through its own Debug
fmt_User(self) ==
  <<"User", "{", "id", self.id, "username", self.username, "email", self.email,
    "password", fmt_Password(self.password), "language", self.language, "}">>

\* a plausible slip: PartialEq derived, comparing every field
eq_Derived(self, other) == self = other

\* impl PartialEq for User
eq(self, other) == self.id = other.id

\* User::try_password_with
try_password_with(self, cypher, raw_password) ==
  try_password(cypher, self.password, raw_password)

None == "unset"
UserFields == <<"id", "username", "email", "password", "language">>
UserBuilderDefault == [f \in {UserFields[i] : i \in 1..Len(UserFields)} |-> [set |-> FALSE]]
Set(builder, field, v) == [builder EXCEPT ![field] = [set |-> TRUE, val |-> v]]

\* #[derive(Builder)] on User: build() fails on the first field never set
RECURSIVE first_unset(_, _)
first_unset(builder, i) ==
  IF i > Len(UserFields) THEN None
  ELSE IF ~builder[UserFields[i]].set THEN UserFields[i]
  ELSE first_unset(builder, i + 1)

build(builder) ==
  IF first_unset(builder, 1) # None
  THEN Err([kind |-> "UninitializedField", field |-> first_unset(builder, 1)])
  ELSE Ok([id |-> builder.id.val, username |-> builder.username.val,
           email |-> builder.email.val, password |-> builder.password.val,
           language |-> builder.language.val])

Ids == {1, 2}
Profiles ==
  { [username |-> "someuser100", email |-> "someuser100@protomail.com", code |-> "en"],
    [username |-> "someuser200", email |-> "someuser200@protomail.com", code |-> "zh"],
    [username |-> "someuser300", email |-> "someuser300@protomail.com", code |-> "xx"] }

\* the strings handed to str::parse::<Language>(): every string of at most
\* two of these characters, and a few longer ones
Chars == {"a", "d", "e", "f", "h", "j", "k", "n", "o", "p", "r", "s", "t", "u", "z",
          "E", "N", " "}
ParseInputs ==
  {""} \cup Chars \cup {a \o b : a \in Chars, b \in Chars}
       \cup {"eng", "en ", " en", "english", "English", "en-US"}

---------------------------------------------------------------------------
(* Users: built the way main and the tests build them, then verified,      *)
(* compared and formatted in any order.                                    *)

InitUser ==
  /\ primErr \in PrimOutcomes
  /\ drawn = {}
  /\ creds = {}
  /\ users = {}
  /\ last = NoOp

\* UserBuilder::default().id(..).username(..).email(..)
\*   .password(cypher.encode(raw_text)?).language(code.parse()?).build()?
NewUser(c, id, profile, raw_text) ==
  /\ Cardinality(users) < MaxUsers
  /\ \E rng \in RngPool \ drawn :
       LET e == encode(c, raw_text, rng)
           l == from_str(profile.code)
           b0 == Set(Set(Set(UserBuilderDefault, "id", id),
                         "username", profile.username), "email", profile.email)
           u == IF ~e.result.ok THEN e.result
                ELSE IF ~l.ok THEN l
                ELSE build(Set(Set(b0, "password", e.result.val), "language", l.val))
       IN  /\ drawn' = drawn \cup {rng}
           /\ users' = IF u.ok THEN users \cup {u.val} ELSE users
           /\ creds' = IF u.ok
                       THEN creds \cup {[cypher |-> c, raw_text |-> raw_text,
                                         password |-> e.result.val, call |-> e.call]}
                       ELSE creds
           /\ last' = [op |-> "new_user", cypher |-> c, raw_text |-> raw_text,
                       result |-> u]
  /\ UNCHANGED primErr

\* user.try_password_with(&cypher, raw_password)
UserTryPassword(u, c, raw_password) ==
  /\ u \in users
  /\ LET t == try_password_with(u, c, raw_password)
     IN  last' = [op |-> "try_password_with", user |-> u, cypher |-> c,
                  raw_text |-> raw_password, result |-> t.result]
  /\ UNCHANGED <<primErr, drawn, creds, users>>

NextUser ==
  \/ \E c \in Cyphers, id \in Ids, pr \in Profiles, p \in RawTexts : NewUser(c, id, pr, p)
  \/ \E u \in users, c \in Cyphers, q \in RawTexts : UserTryPassword(u, c, q)

SpecUser == InitUser /\ [][NextUser]_vars

---------------------------------------------------------------------------
(* User records compared and formatted; the users are built by the default *)
(* cypher on a primitive that rejects nothing, as in main.                 *)

InitRecord ==
  /\ primErr = [x \in Argon2Configs \X RawTexts |-> "ok"]
  /\ drawn = {}
  /\ creds = {}
  /\ users = {}
  /\ last = NoOp

\* a == b
UserEq(a, b) ==
  /\ a \in users /\ b \in users
  /\ last' = [op |-> "eq", a |-> a, b |-> b, result |-> eq(a, b)]
  /\ UNCHANGED <<primErr, drawn, creds, users>>

\* format!("{:?}", user) and format!("{:?}", user.password)
DebugFmt(u) ==
  /\ u \in users
  /\ last' = [op |-> "debug", user |-> u, text |-> fmt_User(u),
              password_text |-> fmt_Password(u.password)]
  /\ UNCHANGED <<primErr, drawn, creds, users>>

NextRecord ==
  \/ \E id \in Ids, pr \in Profiles, p \in RawTexts :
       NewUser(PasswordCypherDefault, id, pr, p)
  \/ \E a \in users, b \in users : UserEq(a, b)
  \/ \E u \in users : DebugFmt(u)

SpecRecord == InitRecord /\ [][NextRecord]_vars

---------------------------------------------------------------------------
(* Language::from_str on its own.                                          *)

InitLang ==
  /\ primErr = [x \in Argon2Configs \X RawTexts |-> "ok"]
  /\ drawn = {}
  /\ creds = {}
  /\ users = {}
  /\ last = NoOp

\* s.parse::<Language>()
Parse(s) ==
  /\ last' = [op |-> "parse", input |-> s, result |-> from_str(s)]
  /\ UNCHANGED <<primErr, drawn, creds, users>>

NextLang == \E s \in ParseInputs : Parse(s)

SpecLang == InitLang /\ [][NextLang]_vars

---------------------------------------------------------------------------
(* Properties of the hasher, checked under SpecHasher.                     *)

\* the outcome of the primitive on the call an operation recorded
PrimOn(call) == hash_password_into(call.argon, call.pwd, call.salt, Zeros(HashLen))

IsTry == last.op = "try_password"
IsEncode == last.op = "encode"

\* C1: for every cypher and every plaintext P, when encode(P) returned Ok(S),
\* try_password(S, P) on the same cypher returns Ok(true).
C1_VerifyOwnEncoding ==
  (IsTry /\ last.cypher = last.cred.cypher /\ last.raw_text = last.cred.raw_text)
    => (last.result.ok /\ last.result.val = TRUE)

\* C2, as stated: for every P and every Q # P, when encode(P) returned Ok(S),
\* try_password(S, Q) returns Ok(false).
C2_OtherCandidateIsOkFalse ==
  (IsTry /\ last.raw_text # last.cred.raw_text)
    => (last.result.ok /\ last.result.val = FALSE)

\* C2, amended: for every P and every Q # P, when encode(P) returned Ok(S),
\* try_password(S, Q) never returns Ok(true): it returns Ok(false) when the
\* primitive succeeds on Q and Err(PasswordHash) with the primitive's message
\* when the primitive fails on Q.
C2_OtherCandidateNeverAccepted ==
  (IsTry /\ last.raw_text # last.cred.raw_text)
    => /\ last.call.pwd = last.raw_text
       /\ IF PrimOn(last.call).err = "ok"
          THEN last.result.ok /\ last.result.val = FALSE
          ELSE ~last.result.ok /\ last.result.err = PasswordHash(PrimOn(last.call).err)

C2_Witness ==
  /\ IsTry /\ last.raw_text # last.cred.raw_text
  /\ last.result.ok /\ last.result.val = FALSE

\* C3: the (parameters, salt) pair try_password hands to the primitive equals
\* the pair the same cypher's encode used when it produced the stored
\* credential.
C3_SameParametersAndSalt ==
  (IsTry /\ last.cypher = last.cred.cypher)
    => /\ last.call.argon = last.cred.call.argon
       /\ last.call.salt = last.cred.call.salt

\* C4: every encode draws a new salt from OsRng and hashes with it, the
\* Password it returns carries that salt, and no two Passwords returned by
\* encode carry the same salt, two encodes of one plaintext included.
C4_FreshSaltPerEncode ==
  /\ \A x \in creds, y \in creds : x # y => x.password.salt # y.password.salt
  /\ IsEncode =>
       /\ last.rng \notin last.before
       /\ last.call.salt = last.rng
       /\ last.result.ok =>
            /\ last.result.val.salt = last.rng
            /\ last.result.val.salt \notin last.held

C4_Witness ==
  /\ IsEncode /\ last.result.ok
  /\ \E x \in creds, y \in creds :
       /\ x # y
       /\ x.cypher = y.cypher /\ x.raw_text = y.raw_text
       /\ y.password = last.result.val

\* C6: try_password returns Err(PasswordHash) exactly when the primitive
\* fails on (candidate, stored salt); when the primitive succeeds it returns
\* Ok(b), b being whether the recomputed 32-byte digest equals the stored
\* hash byte for byte, so a mismatch is Ok(false).
C6_ErrOnlyOnPrimitiveFailure ==
  IsTry =>
    /\ last.call.pwd = last.raw_text
    /\ last.call.salt = last.cred.password.salt
    /\ IF PrimOn(last.call).err = "ok"
       THEN /\ last.result.ok
            /\ last.result.val =
                 (\A i \in 1..HashLen : PrimOn(last.call).out[i] = last.cred.password.hash[i])
       ELSE /\ ~last.result.ok
            /\ last.result.err = PasswordHash(PrimOn(last.call).err)

C6_Witness ==
  /\ IsTry /\ PrimOn(last.call).err = "ok"
  /\ PrimOn(last.call).out # last.cred.password.hash
  /\ last.result.ok /\ last.result.val = FALSE

\* C7: when the primitive fails during encode, encode returns
\* Err(PasswordHash(detail)) with the primitive's message and no Password
\* comes into being; when it succeeds, encode returns Ok with the drawn salt
\* and the produced digest, never a zeroed hash.
C7_EncodeSurfacesFailure ==
  IsEncode =>
    /\ last.call.argon = last.cypher.argon
    /\ last.call.pwd = last.raw_text
    /\ last.call.salt = last.rng
    /\ IF PrimOn(last.call).err = "ok"
       THEN /\ last.result.ok
            /\ last.result.val = [salt |-> last.rng, hash |-> PrimOn(last.call).out]
            /\ last.result.val.hash # Zeros(HashLen)
            /\ \E x \in creds : x.password = last.result.val
       ELSE /\ ~last.result.ok
            /\ last.result.err = PasswordHash(PrimOn(last.call).err)
            /\ \A x \in creds : x.password.salt # last.rng

C7_Witness ==
  /\ IsEncode /\ PrimOn(last.call).err # "ok"
  /\ ~last.result.ok

---------------------------------------------------------------------------
(* Properties of the User record.                                          *)

\* the encode call that made a user's Password
Origin(u) == CHOOSE x \in creds : x.password = u.password

IsTryWith == last.op = "try_password_with"

\* C8: u.try_password_with(c, t) returns exactly what
\* c.try_password(u.password, t) returns, and a user built with encode(P)
\* verifies P as true and every other candidate as false.
C8_DelegatesAndVerifies ==
  IsTryWith =>
    /\ last.result = try_password(last.cypher, last.user.password, last.raw_text).result
    /\ last.cypher = Origin(last.user).cypher =>
         /\ last.result.ok
         /\ last.result.val = (last.raw_text = Origin(last.user).raw_text)

\* the first half of C8 alone: try_password_with returns what try_password
\* returns
C8_Delegates ==
  IsTryWith =>
    last.result = try_password(last.cypher, last.user.password, last.raw_text).result

\* C9: two User records are equal exactly when their ids are equal, whatever
\* their username, email, language and password.
C9_EqualIffSameId ==
  last.op = "eq" => (last.result <=> last.a.id = last.b.id)

C9_Witness ==
  /\ last.op = "eq" /\ last.result = TRUE
  /\ last.a.id = last.b.id
  /\ last.a.username # last.b.username
  /\ last.a.email # last.b.email
  /\ last.a.language # last.b.language
  /\ last.a.password # last.b.password

\* C5: the Debug text of a Password is the same for every Password, and the
\* Debug text of a User is the same for any two users that differ only in
\* the salt and hash of their Password.
C5_DebugIndependentOfSecret ==
  last.op = "debug" =>
    \A v \in users :
      /\ fmt_Password(v.password) = last.password_text
      /\ (/\ v.id = last.user.id /\ v.username = last.user.username
          /\ v.email = last.user.email /\ v.language = last.user.language)
           => fmt_User(v) = last.text

C5_Witness ==
  /\ last.op = "debug"
  /\ \E v \in users :
       /\ v.id = last.user.id /\ v.username = last.user.username
       /\ v.email = last.user.email /\ v.language = last.user.language
       /\ v.password.salt # last.user.password.salt
       /\ v.password.hash # last.user.password.hash
       /\ fmt_User(v) = last.text

---------------------------------------------------------------------------
(* Properties of Language::from_str, checked under SpecLang.               *)

TenCodes == {"en", "zh", "es", "fr", "de", "ja", "pt", "ru", "ar", "ko"}

\* C10: parsing succeeds exactly on the ten codes and yields the one variant
\* carrying the code; every other string, the empty string and differently
\* cased codes included, fails with LanguageNotFound.
C10_ParseExactlyTenCodes ==
  last.op = "parse" =>
    IF last.input \in TenCodes
    THEN /\ last.result.ok
         /\ Cardinality({i \in 1..Len(Language) : Language[i].lang = last.input}) = 1
         /\ \E i \in 1..Len(Language) :
              Language[i].lang = last.input /\ Language[i].variant = last.result.val
    ELSE /\ ~last.result.ok
         /\ last.result.err = LanguageNotFound

C10_Witness ==
  /\ last.op = "parse" /\ last.input = "EN"
  /\ ~last.result.ok

====
